---- MODULE Spec2Model ----
(***************************************************************************)
(* OptiWeave: operator instrumentation by source rewriting.                *)
(*                                                                         *)
(* Part I   models the shipped pipeline: ModernASTVisitor walking a typed  *)
(*          tree and editing a clang::Rewriter buffer, then                *)
(*          OptiWeaveFrontendAction::EndSourceFileAction writing files.    *)
(* Part II  models the two rangesOverlap helpers of source_utils.          *)
(* Part III models the transactional rewrite engine (core/rewriter), whose *)
(*          implementation file is not part of the source tree.            *)
(* Part IV  models the classifiers: the AST matchers of operator_matchers  *)
(*          and OperatorDetector::shouldAnalyzeExpression.                 *)
(*                                                                         *)
(* Text is a sequence of tokens; every token of an input file has length 1 *)
(* so offsets count tokens.  clang source ranges are token ranges          *)
(* (begin, end) where end is the offset of the last token.                 *)
(***************************************************************************)
EXTENDS Integers, Sequences, FiniteSets, TLC

VARIABLES
  scen,               \* the translation unit being processed
  config,             \* TransformationConfig
  DryRun,             \* --dry-run
  worklist,           \* nodes the traversal still has to visit, in order
  visited,            \* nodes visited so far, in order (history)
  smBuffer,           \* SourceManager's buffer of each file (the original)
  rewriteBuf,         \* Rewriter's RewriteBuffer of each file
  processed_ranges_,  \* ModernASTVisitor::processed_ranges_
  stats,              \* TransformationStats
  applied,            \* edits for which ReplaceText succeeded (history)
  skippedSeen,        \* nodes that returned at isAlreadyProcessed (history)
  disk,               \* content of each file as the tool leaves it
  pc,                 \* "traverse", "end" or "done"
  trail,              \* the stages each candidate went through (history)
  instantiated,       \* deferred calls of the output compiled for a concrete type
  r1, r2, ovResult,   \* Part II: two ranges and the helpers' verdicts
  engState,           \* Part III: "Idle", "Accumulating", "Committed", "RolledBack"
  ledger,             \* Part III: accepted edits, in order of acceptance
  conflicts,          \* Part III: RewriterReporter's conflict diagnostics
  engOut,             \* Part III: the text the engine hands out
  ordA, ordB,         \* Part III: one set of edits in two orders, still to propose
  accA, accB,         \* Part III: the ledger each order has built
  clsNodes,           \* Part IV: two expressions handed to the classifiers
  matched,            \* Part IV: what the matchers bound for each, per run
  analyzed,           \* Part IV: what shouldAnalyzeExpression returned, per call
  detector_stats_     \* Part IV: OperatorDetector::stats_

vars == <<scen, config, DryRun, worklist, visited, smBuffer, rewriteBuf,
          processed_ranges_, stats, applied, skippedSeen, disk, pc,
          trail, instantiated, r1, r2, ovResult, engState, ledger, conflicts, engOut,
          ordA, ordB, accA, accB, clsNodes, matched, analyzed,
          detector_stats_>>

visitorVars == <<scen, config, DryRun, worklist, visited, smBuffer,
                 rewriteBuf, processed_ranges_, stats, applied, skippedSeen,
                 disk, pc, trail, instantiated>>
overlapVars == <<r1, r2, ovResult>>
engineVars  == <<engState, ledger, conflicts, engOut>>
orderVars   == <<ordA, ordB, accA, accB>>
classifyVars == <<clsNodes, matched, analyzed, detector_stats_>>

(***************************************************************************)
(* Generic helpers.                                                        *)
(***************************************************************************)
RECURSIVE SumSeq(_)
SumSeq(s) == IF s = <<>> THEN 0 ELSE Head(s) + SumSeq(Tail(s))

RECURSIVE FlatSeq(_)
FlatSeq(ss) == IF ss = <<>> THEN <<>> ELSE Head(ss) \o FlatSeq(Tail(ss))

Range(s) == { s[i] : i \in DOMAIN s }

\* the tokens of text at the half-open offsets [b, e)
Slice(text, b, e) == SubSeq(text, b + 1, e)

(***************************************************************************)
(* Part I.  The inputs: small translation units.                           *)
(*                                                                         *)
(* A node carries what the visitor reads from clang: its class, its file,  *)
(* its token range, the token ranges of its two operands, its children    *)
(* that have a Visit method or matter as context, its parent, and flags.  *)
(***************************************************************************)
\* what TypeAnalyzer reads from the canonical type of an operand
PlainType == [volatile |-> FALSE, function |-> FALSE, incomplete |-> FALSE]

Node(kind, file, b, e, kids, parent) ==
  [kind |-> kind, file |-> file, begin |-> b, end |-> e,
   lhsB |-> b, lhsE |-> b, rhsB |-> e - 1, rhsE |-> e - 1,
   kids |-> kids, parent |-> parent, op |-> "",
   lhsDep |-> FALSE, rhsDep |-> FALSE, sys |-> FALSE,
   textInvalid |-> FALSE, invalidRanges |-> {}, notRewritable |-> FALSE,
   lhsType |-> "int *", rhsType |-> "int",
   lhsQual |-> PlainType, rhsQual |-> PlainType]

\* an ArraySubscriptExpr  lhs[rhs]  with the given operand ranges
Sub(file, b, e, lb, le, rb, re, kids, parent) ==
  [Node("ArraySubscriptExpr", file, b, e, kids, parent)
     EXCEPT !.lhsB = lb, !.lhsE = le, !.rhsB = rb, !.rhsE = re]

\* a BinaryOperator  lhs op rhs
Bin(op, file, b, e, lb, le, rb, re, kids, parent) ==
  [Node("BinaryOperator", file, b, e, kids, parent)
     EXCEPT !.op = op, !.lhsB = lb, !.lhsE = le, !.rhsB = rb, !.rhsE = re,
            !.lhsType = "int", !.rhsType = "int"]

Scenarios == {"plain", "nested_index", "multi_dim", "siblings", "addr_of",
              "header", "op_call", "macro", "binops", "sizeof_bare",
              "sizeof_paren", "template", "sys_header", "macro_operand",
              "volatile_assign", "failures", "header_macro"}

Files == {"m", "h"}

\* the original text of each file of a translation unit
FileText(s) ==
  CASE s = "plain"        -> [m |-> <<"a","[","i","]">>, h |-> <<>>]
    [] s = "nested_index" -> [m |-> <<"a","[","b","[","k","]","]">>, h |-> <<>>]
    [] s = "multi_dim"    -> [m |-> <<"m","[","i","]","[","j","]">>, h |-> <<>>]
    [] s = "siblings"     -> [m |-> <<"a","[","i","]","+","b","[","j","]">>,
                              h |-> <<>>]
    [] s = "addr_of"      -> [m |-> <<"&","a","[","i","]",";","b","[","j","]">>,
                              h |-> <<>>]
    [] s = "header"       -> [m |-> <<"a","[","i","]">>,
                              h |-> <<"b","[","j","]">>]
    [] s = "op_call"      -> [m |-> <<"v","[","i","]",";","a","[","j","]">>,
                              h |-> <<>>]
    [] s = "macro"        -> [m |-> <<"A","[","i","]",";","B","[","j","]">>,
                              h |-> <<>>]
    [] s = "binops"       -> [m |-> <<"x","+","y",";","p","=","q",";","u","<","w">>,
                              h |-> <<>>]
    [] s = "sizeof_bare"  -> [m |-> <<"sizeof","a","[","i","]",";","b","[","j","]">>,
                              h |-> <<>>]
    [] s = "sizeof_paren" -> [m |-> <<"sizeof","(","a","[","i","]",")",";",
                                      "b","[","j","]">>,
                              h |-> <<>>]
    [] s = "template"     -> [m |-> <<"arr","[","k","]",";","p","[","t","]",";",
                                      "x","+","t",";","c","[","k","]">>,
                              h |-> <<>>]
    [] s = "sys_header"   -> [m |-> <<"a","[","i","]">>,
                              h |-> <<"b","[","j","]">>]
    [] s = "macro_operand" -> [m |-> <<"a","[","M","]",";","N","[","j","]">>,
                               h |-> <<>>]
    [] s = "volatile_assign" -> [m |-> <<"v","=","q",";","a","[","i","]">>,
                                 h |-> <<>>]
    [] s = "failures"     -> [m |-> <<"A","[","i","]",";","b","[","M","]",";",
                                      "c","[","k","]">>,
                              h |-> <<"B","[","j","]">>]
    [] s = "header_macro" -> [m |-> <<"a","[","i","]">>,
                              h |-> <<"B","[","j","]">>]

\* the nodes of a translation unit, by node id
Nodes(s) ==
  CASE s = "plain" ->
         << Sub("m", 0, 3, 0, 0, 2, 2, <<>>, 0) >>
    [] s = "nested_index" ->                       \* a[b[k]]
         << Sub("m", 0, 6, 0, 0, 2, 5, <<2>>, 0),
            Sub("m", 2, 5, 2, 2, 4, 4, <<>>, 1) >>
    [] s = "multi_dim" ->                          \* m[i][j]
         << Sub("m", 0, 6, 0, 3, 5, 5, <<2>>, 0),
            Sub("m", 0, 3, 0, 0, 2, 2, <<>>, 1) >>
    [] s = "siblings" ->                           \* a[i]+b[j]
         << Bin("+", "m", 0, 8, 0, 3, 5, 8, <<2, 3>>, 0),
            Sub("m", 0, 3, 0, 0, 2, 2, <<>>, 1),
            Sub("m", 5, 8, 5, 5, 7, 7, <<>>, 1) >>
    [] s = "addr_of" ->                            \* &a[i];b[j]
         << [Node("UnaryOperator", "m", 0, 4, <<2>>, 0) EXCEPT !.op = "&"],
            Sub("m", 1, 4, 1, 1, 3, 3, <<>>, 1),
            Sub("m", 6, 9, 6, 6, 8, 8, <<>>, 0) >>
    [] s = "header" ->                             \* h: b[j]   m: a[i]
         << Sub("h", 0, 3, 0, 0, 2, 2, <<>>, 0),
            Sub("m", 0, 3, 0, 0, 2, 2, <<>>, 0) >>
    [] s = "op_call" ->                            \* v[i] (user operator[]);a[j]
         << Node("CXXOperatorCallExpr", "m", 0, 3, <<>>, 0),
            Sub("m", 5, 8, 5, 5, 7, 7, <<>>, 0) >>
    [] s = "macro" ->                              \* A[i];B[j] out of macros
         << [Sub("m", 0, 3, 0, 0, 2, 2, <<>>, 0) EXCEPT !.textInvalid = TRUE],
            [Sub("m", 5, 8, 5, 5, 7, 7, <<>>, 0) EXCEPT !.notRewritable = TRUE] >>
    [] s = "binops" ->                             \* x+y;p=q;u<w
         << Bin("+", "m", 0, 2, 0, 0, 2, 2, <<>>, 0),
            Bin("=", "m", 4, 6, 4, 4, 6, 6, <<>>, 0),
            Bin("<", "m", 8, 10, 8, 8, 10, 10, <<>>, 0) >>
    [] s = "sizeof_bare" ->                        \* sizeof a[i];b[j]
         << Node("UnaryExprOrTypeTraitExpr", "m", 0, 4, <<2>>, 0),
            Sub("m", 1, 4, 1, 1, 3, 3, <<>>, 1),
            Sub("m", 6, 9, 6, 6, 8, 8, <<>>, 0) >>
    [] s = "sizeof_paren" ->                       \* sizeof(a[i]);b[j]
         << Node("UnaryExprOrTypeTraitExpr", "m", 0, 6, <<2>>, 0),
            Node("ParenExpr", "m", 1, 6, <<3>>, 1),
            Sub("m", 2, 5, 2, 2, 4, 4, <<>>, 2),
            Sub("m", 8, 11, 8, 8, 10, 10, <<>>, 0) >>
    [] s = "template" ->   \* in a template: T* arr, int* p, T t, int x, C c
         << [Sub("m", 0, 3, 0, 0, 2, 2, <<>>, 0)
               EXCEPT !.lhsDep = TRUE, !.lhsType = "T *"],
            [Sub("m", 5, 8, 5, 5, 7, 7, <<>>, 0)
               EXCEPT !.rhsDep = TRUE, !.rhsType = "T"],
            [Bin("+", "m", 10, 12, 10, 10, 12, 12, <<>>, 0)
               EXCEPT !.rhsDep = TRUE, !.rhsType = "T"],
            [Sub("m", 14, 17, 14, 14, 16, 16, <<>>, 0)
               EXCEPT !.lhsDep = TRUE, !.lhsType = "C"] >>
    [] s = "sys_header" ->          \* h, a system header: b[j]   m: a[i]
         << [Sub("h", 0, 3, 0, 0, 2, 2, <<>>, 0) EXCEPT !.sys = TRUE],
            Sub("m", 0, 3, 0, 0, 2, 2, <<>>, 0) >>
    [] s = "macro_operand" ->  \* a[M];N[j]: the text of M and of N is not available
         << [Sub("m", 0, 3, 0, 0, 2, 2, <<>>, 0)
               EXCEPT !.invalidRanges = {<<2, 2>>}],
            [Sub("m", 5, 8, 5, 5, 7, 7, <<>>, 0)
               EXCEPT !.invalidRanges = {<<5, 5>>}] >>
    [] s = "volatile_assign" ->     \* volatile int v; int q;  v=q;a[i]
         << [Bin("=", "m", 0, 2, 0, 0, 2, 2, <<>>, 0)
               EXCEPT !.lhsType = "volatile int", !.lhsQual.volatile = TRUE],
            Sub("m", 4, 7, 4, 4, 6, 6, <<>>, 0) >>
    [] s = "failures" ->   \* h: B[j] out of a macro   m: A[i];b[M];c[k]
         << [Sub("h", 0, 3, 0, 0, 2, 2, <<>>, 0) EXCEPT !.textInvalid = TRUE],
            [Sub("m", 0, 3, 0, 0, 2, 2, <<>>, 0) EXCEPT !.notRewritable = TRUE],
            [Sub("m", 5, 8, 5, 5, 7, 7, <<>>, 0)
               EXCEPT !.invalidRanges = {<<7, 7>>}],
            Sub("m", 10, 13, 10, 10, 12, 12, <<>>, 0) >>
    [] s = "header_macro" ->        \* h: B[j] out of a macro   m: a[i]
         << [Sub("h", 0, 3, 0, 0, 2, 2, <<>>, 0) EXCEPT !.textInvalid = TRUE],
            Sub("m", 0, 3, 0, 0, 2, 2, <<>>, 0) >>

\* the top-level statements of a translation unit, in declaration order
Roots(s) == { i \in DOMAIN Nodes(s) : Nodes(s)[i].parent = 0 }

NodeIds(s) == DOMAIN Nodes(s)

RECURSIVE IsDescendant(_, _, _)
IsDescendant(s, d, a) ==
  LET p == Nodes(s)[d].parent
  IN  p # 0 /\ (p = a \/ IsDescendant(s, p, a))

IsCandidateKind(k) == k \in {"ArraySubscriptExpr", "BinaryOperator"}

\* the half-open span of a node: its token range plus the last token
SpanOf(n) == [file |-> n.file, start |-> n.begin, stop |-> n.end + 1]

(***************************************************************************)
(* Part I.  clang::Rewriter as the visitor uses it.                        *)
(*                                                                         *)
(* A RewriteBuffer holds the edited text and a table of deltas.  An edit   *)
(* is addressed by offsets into the ORIGINAL text; getMappedOffset turns   *)
(* such an offset into an offset of the edited text by adding the deltas   *)
(* recorded before it.  A replacement at original offset o records its     *)
(* change of length under the key 2*o+1.                                   *)
(***************************************************************************)
EmptyRewriteBuffer == [present |-> FALSE, Buffer |-> <<>>, Deltas |-> <<>>]

\* DeltaTree::getDeltaAt: the sum of the deltas recorded below a key
getDeltaAt(rb, FileIndex) ==
  SumSeq([i \in 1..Len(rb.Deltas) |->
            IF rb.Deltas[i].key < FileIndex THEN rb.Deltas[i].delta ELSE 0])

getMappedOffset(rb, OrigOffset, AfterInserts) ==
  getDeltaAt(rb, 2 * OrigOffset + (IF AfterInserts THEN 1 ELSE 0)) + OrigOffset

\* Rewriter::getEditBuffer: the buffer of a file, created from the original
getEditBuffer(rb, original) ==
  IF rb.present THEN rb
  ELSE [present |-> TRUE, Buffer |-> original, Deltas |-> <<>>]

\* Rewriter::getRangeSize of the token range (b, e); every token has length 1
getRangeSize(rb, b, e) ==
  IF rb.present
  THEN (getMappedOffset(rb, e, TRUE) + 1) - getMappedOffset(rb, b, TRUE)
  ELSE (e + 1) - b

\* RewriteBuffer::ReplaceText
RewriteBuffer_ReplaceText(rb, OrigOffset, OrigLength, NewStr) ==
  LET RealOffset == getMappedOffset(rb, OrigOffset, TRUE)
  IN  [present |-> TRUE,
       Buffer  |-> SubSeq(rb.Buffer, 1, RealOffset) \o NewStr \o
                   SubSeq(rb.Buffer, RealOffset + OrigLength + 1, Len(rb.Buffer)),
       Deltas  |-> IF OrigLength # Len(NewStr)
                   THEN Append(rb.Deltas, [key   |-> 2 * OrigOffset + 1,
                                           delta |-> Len(NewStr) - OrigLength])
                   ELSE rb.Deltas]

\* Rewriter::ReplaceText(SourceRange, StringRef) on the buffer of one file
Rewriter_ReplaceText(rb, original, b, e, NewStr) ==
  LET size == getRangeSize(rb, b, e)
  IN  RewriteBuffer_ReplaceText(getEditBuffer(rb, original), b, size, NewStr)

(***************************************************************************)
(* Part I.  ModernASTVisitor.                                              *)
(***************************************************************************)
\* the visitor as it would be had it kept RecursiveASTVisitor's default order
shouldTraversePostOrder_preorder == FALSE

shouldTraversePostOrder == TRUE

HasVisitMethod(k) ==
  k \in {"ArraySubscriptExpr", "BinaryOperator", "UnaryOperator",
         "CXXOperatorCallExpr"}

\* a traversal that calls Visit* on a node before and after its children
RECURSIVE TraverseStmt_bothOrders(_, _)
TraverseStmt_bothOrders(s, n) ==
  LET kids  == Nodes(s)[n].kids
      below == FlatSeq([i \in 1..Len(kids) |->
                          TraverseStmt_bothOrders(s, kids[i])])
      self  == IF HasVisitMethod(Nodes(s)[n].kind) THEN <<n>> ELSE <<>>
  IN  self \o below \o self

\* RecursiveASTVisitor::TraverseStmt: the order in which Visit* is called on
\* the subtree of node n
RECURSIVE TraverseStmt(_, _)
TraverseStmt(s, n) ==
  LET kids  == Nodes(s)[n].kids
      below == FlatSeq([i \in 1..Len(kids) |-> TraverseStmt(s, kids[i])])
      self  == IF HasVisitMethod(Nodes(s)[n].kind) THEN <<n>> ELSE <<>>
  IN  IF shouldTraversePostOrder THEN below \o self ELSE self \o below

\* TraverseDecl(TranslationUnitDecl): the top-level statements in order
TraverseDecl(s) ==
  FlatSeq([i \in 1..Len(Nodes(s)) |->
             IF Nodes(s)[i].parent = 0 THEN TraverseStmt(s, i) ELSE <<>>])

\* a visitor that takes no location for a system header
isInSystemHeader_never(n) == FALSE

isInSystemHeader(n) == n.sys

\* a context filter without the address-of test
shouldSkipExpression_noAddrOf(s, n) ==
  \/ config.skip_system_headers /\ isInSystemHeader(n)
  \/ /\ n.parent # 0
     /\ LET p == Nodes(s)[n.parent]
        IN  p.kind = "UnaryExprOrTypeTraitExpr"

shouldSkipExpression(s, n) ==
  \/ config.skip_system_headers /\ isInSystemHeader(n)
  \/ /\ n.parent # 0
     /\ LET p == Nodes(s)[n.parent]
        IN  \/ p.kind = "UnaryOperator" /\ p.op = "&"
            \/ p.kind = "UnaryExprOrTypeTraitExpr"

range_key(n) == <<n.begin, n.end>>

\* a visitor that never finds a range in the set
isAlreadyProcessed_never(n) == FALSE

isAlreadyProcessed(n) == range_key(n) \in processed_ranges_

\* a visitor that counts a transformed expression without recording its range
markAsProcessed_none(n) == processed_ranges_

markAsProcessed(n) == processed_ranges_ \cup {range_key(n)}

\* a visitor that reads operand text back from the Rewriter
\* (Rewriter::getRewrittenText) instead of from the SourceManager
getSourceText_rewritten(n, b, e) ==
  LET rb == rewriteBuf[n.file]
  IN  IF n.textInvalid \/ <<b, e>> \in n.invalidRanges THEN <<>>
      ELSE IF rb.present
      THEN Slice(rb.Buffer, getMappedOffset(rb, b, FALSE),
                 getMappedOffset(rb, e, TRUE) + 1)
      ELSE Slice(smBuffer[n.file], b, e + 1)

\* Lexer::getSourceText of a token range: read from the SourceManager buffer
getSourceText(n, b, e) ==
  IF n.textInvalid \/ <<b, e>> \in n.invalidRanges THEN <<>>
  ELSE Slice(smBuffer[n.file], b, e + 1)

isTemplateDependentType(dep) == dep

\* the dependency verdict the generators act on: an index access is tested
\* on its base type, a binary operator on both operand types
DependencyClassification(n) ==
  IF n.kind = "ArraySubscriptExpr"
  THEN IF isTemplateDependentType(n.lhsDep) THEN "Deferred" ELSE "Concrete"
  ELSE IF isTemplateDependentType(n.lhsDep) \/ isTemplateDependentType(n.rhsDep)
       THEN "Deferred" ELSE "Concrete"

\* a generator with the two cases exchanged
generateArraySubscriptInstrumentation_swapped(lhsDep, type_str, lhs_text, rhs_text) ==
  IF ~isTemplateDependentType(lhsDep)
  THEN <<"__maybe_primop_subscript<", "decltype(">> \o lhs_text \o <<"), ",
         "!__has_subscript_overload<decltype(">> \o lhs_text \o
       <<")>::value", ">()(">> \o lhs_text \o <<", ">> \o rhs_text \o <<")">>
  ELSE <<"__primop_subscript<", type_str, ">()", "(">> \o lhs_text \o
       <<", ">> \o rhs_text \o <<")">>

generateArraySubscriptInstrumentation(lhsDep, type_str, lhs_text, rhs_text) ==
  IF isTemplateDependentType(lhsDep)
  THEN <<"__maybe_primop_subscript<", "decltype(">> \o lhs_text \o <<"), ",
         "!__has_subscript_overload<decltype(">> \o lhs_text \o
       <<")>::value", ">()(">> \o lhs_text \o <<", ">> \o rhs_text \o <<")">>
  ELSE <<"__primop_subscript<", type_str, ">()", "(">> \o lhs_text \o
       <<", ">> \o rhs_text \o <<")">>

getBinaryOperatorSpelling(op) == op

\* a generator that passes the right operand first
generateBinaryOperatorInstrumentation_rhsFirst(op, dl, dr, tl, tr, lhs_text, rhs_text) ==
  LET op_name == getBinaryOperatorSpelling(op)
  IN  IF isTemplateDependentType(dl) \/ isTemplateDependentType(dr)
      THEN <<"__maybe_primop_", op_name, "<", "decltype(">> \o lhs_text \o
           <<"), ", "decltype(">> \o rhs_text \o <<")", ">()(">> \o
           rhs_text \o <<", ">> \o lhs_text \o <<")">>
      ELSE <<"__primop_", op_name, "<", tl, ", ", tr,
             ">()", "(">> \o rhs_text \o <<", ">> \o lhs_text \o <<")">>

\* dl, dr: the operand types are template-dependent; tl, tr: their spellings
generateBinaryOperatorInstrumentation(op, dl, dr, tl, tr, lhs_text, rhs_text) ==
  LET op_name == getBinaryOperatorSpelling(op)
  IN  IF isTemplateDependentType(dl) \/ isTemplateDependentType(dr)
      THEN <<"__maybe_primop_", op_name, "<", "decltype(">> \o lhs_text \o
           <<"), ", "decltype(">> \o rhs_text \o <<")", ">()(">> \o
           lhs_text \o <<", ">> \o rhs_text \o <<")">>
      ELSE <<"__primop_", op_name, "<", tl, ", ", tr,
             ">()", "(">> \o lhs_text \o <<", ">> \o rhs_text \o <<")">>

\* a transform that does not test the operand texts for emptiness
Transform_noTextCheck(n, id, instrumentation, lhs_text, rhs_text) ==
  [ok   |-> TRUE,
   stages |-> <<"Analyzed", "Generated", "Proposed", "Committed">>,
   buf  |-> Rewriter_ReplaceText(rewriteBuf[n.file], smBuffer[n.file],
                                 n.begin, n.end, instrumentation),
   edit |-> <<[node |-> id, file |-> n.file, start |-> n.begin,
               stop |-> n.end + 1, lhs_text |-> lhs_text,
               rhs_text |-> rhs_text, text |-> instrumentation]>>]

\* the common body of transformArraySubscript and transformBinaryOperator:
\* [ok, buf, edit, stages]; ok is the bool the method returns, stages the
\* steps of the method that were reached
Transform(n, id, instrumentation, lhs_text, rhs_text) ==
  LET fail(st) == [ok |-> FALSE, buf |-> rewriteBuf[n.file], edit |-> <<>>,
                   stages |-> st]
  IN  IF lhs_text = <<>> \/ rhs_text = <<>>
      THEN fail(<<"Analyzed", "GenerationFailed">>)
      ELSE IF n.notRewritable
      THEN fail(<<"Analyzed", "Generated", "Proposed", "Conflicted">>)
      ELSE [ok   |-> TRUE,
            stages |-> <<"Analyzed", "Generated", "Proposed", "Committed">>,
            buf  |-> Rewriter_ReplaceText(rewriteBuf[n.file], smBuffer[n.file],
                                          n.begin, n.end, instrumentation),
            edit |-> <<[node |-> id, file |-> n.file, start |-> n.begin,
                        stop |-> n.end + 1, lhs_text |-> lhs_text,
                        rhs_text |-> rhs_text, text |-> instrumentation]>>]

transformArraySubscript(n, id) ==
  LET lhs_text == getSourceText(n, n.lhsB, n.lhsE)
      rhs_text == getSourceText(n, n.rhsB, n.rhsE)
  IN  Transform(n, id,
                generateArraySubscriptInstrumentation(n.lhsDep, n.lhsType,
                                                      lhs_text, rhs_text),
                lhs_text, rhs_text)

transformBinaryOperator(n, id) ==
  LET lhs_text == getSourceText(n, n.lhsB, n.lhsE)
      rhs_text == getSourceText(n, n.rhsB, n.rhsE)
  IN  Transform(n, id,
                generateBinaryOperatorInstrumentation(n.op, n.lhsDep, n.rhsDep,
                    n.lhsType, n.rhsType, lhs_text, rhs_text),
                lhs_text, rhs_text)

isArithmeticOp(op) == op \in {"+", "-", "*", "/", "%"}
isAssignmentOp(op) == op \in {"=", "+=", "-=", "*=", "/=", "%="}
isComparisonOp(op) == op \in {"==", "!=", "<", ">", "<=", ">="}

\* the traversal hands the next node to its Visit method
Current == Nodes(scen)[Head(worklist)]

\* a traversal that a Visit method ends by returning false when the text of
\* an operand is not available
Advance_stopOnFailure ==
  /\ worklist' = IF Nodes(scen)[Head(worklist)].textInvalid
                     \/ Nodes(scen)[Head(worklist)].invalidRanges # {}
                  THEN <<>> ELSE Tail(worklist)
  /\ visited' = Append(visited, Head(worklist))

Advance ==
  /\ worklist' = Tail(worklist)
  /\ visited' = Append(visited, Head(worklist))

\* the candidate in hand was matched and went through the given stages
Stage(stages) ==
  trail' = [trail EXCEPT ![Head(worklist)] = @ \o <<"Classified">> \o stages]

\* what a Visit method does once it decided to transform the node: t is the
\* result of transformArraySubscript / transformBinaryOperator
ApplyOutcome(n, t, counter) ==
  /\ Stage(t.stages)
  /\ IF t.ok
     THEN /\ rewriteBuf' = [rewriteBuf EXCEPT ![n.file] = t.buf]
          /\ applied' = applied \o t.edit
          /\ processed_ranges_' = markAsProcessed(n)
          /\ stats' = [stats EXCEPT ![counter] = @ + 1]
     ELSE /\ stats' = [stats EXCEPT !.errors_encountered = @ + 1]
          /\ UNCHANGED <<rewriteBuf, applied, processed_ranges_>>

VisitArraySubscriptExpr ==
  /\ pc = "traverse" /\ worklist # <<>>
  /\ Current.kind = "ArraySubscriptExpr"
  /\ Advance
  /\ LET n == Current
     IN  IF shouldSkipExpression(scen, n)
         THEN /\ Stage(<<"FilteredOut">>)
              /\ UNCHANGED <<rewriteBuf, applied, processed_ranges_, stats,
                             skippedSeen>>
         ELSE IF isAlreadyProcessed(n)
         THEN /\ skippedSeen' = skippedSeen \cup {Head(worklist)}
              /\ Stage(<<"FilteredOut">>)
              /\ UNCHANGED <<rewriteBuf, applied, processed_ranges_, stats>>
         ELSE /\ skippedSeen' = skippedSeen
              /\ IF config.transform_array_subscripts
                 THEN ApplyOutcome(n, transformArraySubscript(n, Head(worklist)),
                                   "array_subscripts_transformed")
                 ELSE /\ Stage(<<"FilteredOut">>)
                      /\ UNCHANGED <<rewriteBuf, applied, processed_ranges_,
                                     stats>>
  /\ UNCHANGED <<scen, config, DryRun, smBuffer, disk, pc, instantiated>>
  /\ UNCHANGED <<overlapVars, engineVars, orderVars, classifyVars>>

VisitBinaryOperator ==
  /\ pc = "traverse" /\ worklist # <<>>
  /\ Current.kind = "BinaryOperator"
  /\ Advance
  /\ LET n == Current
         should_transform ==
           \/ isArithmeticOp(n.op) /\ config.transform_arithmetic_operators
           \/ isAssignmentOp(n.op) /\ config.transform_assignment_operators
           \/ isComparisonOp(n.op) /\ config.transform_comparisons_operators
     IN  IF shouldSkipExpression(scen, n)
         THEN /\ Stage(<<"FilteredOut">>)
              /\ UNCHANGED <<rewriteBuf, applied, processed_ranges_, stats,
                             skippedSeen>>
         ELSE IF isAlreadyProcessed(n)
         THEN /\ skippedSeen' = skippedSeen \cup {Head(worklist)}
              /\ Stage(<<"FilteredOut">>)
              /\ UNCHANGED <<rewriteBuf, applied, processed_ranges_, stats>>
         ELSE /\ skippedSeen' = skippedSeen
              /\ IF should_transform
                 THEN ApplyOutcome(n, transformBinaryOperator(n, Head(worklist)),
                                   "arithmetic_ops_transformed")
                 ELSE /\ Stage(<<"FilteredOut">>)
                      /\ UNCHANGED <<rewriteBuf, applied, processed_ranges_,
                                     stats>>
  /\ UNCHANGED <<scen, config, DryRun, smBuffer, disk, pc, instantiated>>
  /\ UNCHANGED <<overlapVars, engineVars, orderVars, classifyVars>>

VisitUnaryOperator ==
  /\ pc = "traverse" /\ worklist # <<>>
  /\ Current.kind = "UnaryOperator"
  /\ Advance
  /\ UNCHANGED <<scen, config, DryRun, smBuffer, rewriteBuf, processed_ranges_,
                 stats, applied, skippedSeen, disk, pc, trail, instantiated>>
  /\ UNCHANGED <<overlapVars, engineVars, orderVars, classifyVars>>

VisitCXXOperatorCallExpr ==
  /\ pc = "traverse" /\ worklist # <<>>
  /\ Current.kind = "CXXOperatorCallExpr"
  /\ Advance
  /\ UNCHANGED <<scen, config, DryRun, smBuffer, rewriteBuf, processed_ranges_,
                 stats, applied, skippedSeen, disk, pc, trail, instantiated>>
  /\ UNCHANGED <<overlapVars, engineVars, orderVars, classifyVars>>

\* TransformationConsumer::HandleTranslationUnit returns once the traversal
\* has visited every node
HandleTranslationUnit ==
  /\ pc = "traverse" /\ worklist = <<>>
  /\ pc' = "end"
  /\ UNCHANGED <<scen, config, DryRun, worklist, visited, smBuffer, rewriteBuf,
                 processed_ranges_, stats, applied, skippedSeen, disk, trail,
                 instantiated>>
  /\ UNCHANGED <<overlapVars, engineVars, orderVars, classifyVars>>

\* a Rewriter that would hold a buffer for every file
ChangedFiles_all == Files

\* the files the Rewriter holds a buffer for
ChangedFiles == { f \in Files : rewriteBuf[f].present }

\* an EndSourceFileAction that forgets the dry-run test
EndSourceFileAction_nodry ==
  /\ pc = "end"
  /\ pc' = "done"
  /\ \E failed \in SUBSET ChangedFiles :
        disk' = [f \in Files |->
                   IF f \in ChangedFiles \ failed
                   THEN rewriteBuf[f].Buffer ELSE disk[f]]
  /\ UNCHANGED <<scen, config, DryRun, worklist, visited, smBuffer, rewriteBuf,
                 processed_ranges_, stats, applied, skippedSeen, trail,
                 instantiated>>
  /\ UNCHANGED <<overlapVars, engineVars, orderVars, classifyVars>>

\* OptiWeaveFrontendAction::EndSourceFileAction.  A dry run returns before
\* anything is written.  Otherwise every changed buffer is written, to the
\* file itself or to the output directory; a file whose write fails is left
\* as it was.
EndSourceFileAction ==
  /\ pc = "end"
  /\ pc' = "done"
  /\ IF DryRun
     THEN disk' = disk
     ELSE \E failed \in SUBSET ChangedFiles :
            disk' = [f \in Files |->
                       IF f \in ChangedFiles \ failed
                       THEN rewriteBuf[f].Buffer ELSE disk[f]]
  /\ UNCHANGED <<scen, config, DryRun, worklist, visited, smBuffer, rewriteBuf,
                 processed_ranges_, stats, applied, skippedSeen, trail,
                 instantiated>>
  /\ UNCHANGED <<overlapVars, engineVars, orderVars, classifyVars>>

(***************************************************************************)
(* Part I.  The prelude the output is compiled against: what a deferred    *)
(* index call of the output becomes when its template is instantiated.     *)
(***************************************************************************)
\* the concrete types a dependent base type can be instantiated with
Instantiations(lhsType) ==
  IF lhsType = "T *" THEN {"int *"} ELSE {"int *", "int [10]", "Vec"}

\* Vec is a class with its own operator[]; the others are built-in types
SuppliesIndexOperator(T) == T = "Vec"

\* optiweave::has_subscript_overload<T>::value
has_subscript_overload(T) == SuppliesIndexOperator(T)

\* __primop_subscript<T>: defined for arrays and pointers, empty otherwise
primop_subscript(T) ==
  IF T \in {"int *", "int [10]"} THEN "__primop_subscript" ELSE "ill_formed"

\* __maybe_primop_subscript<T, HasOverload>: the primary template forwards to
\* obj[index]; the specialization for false derives from __primop_subscript<T>
maybe_primop_subscript(T, HasOverload) ==
  IF HasOverload
  THEN IF SuppliesIndexOperator(T) THEN "user_operator" ELSE "builtin_subscript"
  ELSE primop_subscript(T)

\* the value of the second template argument written in the emitted text
HasOverloadArgument(text, T) ==
  IF "!__has_subscript_overload<decltype(" \in Range(text)
  THEN ~has_subscript_overload(T)
  ELSE has_subscript_overload(T)

\* the written output is compiled and a template holding a deferred index
\* call is instantiated with a concrete type
InstantiateTemplate ==
  /\ pc = "done"
  /\ \E k \in DOMAIN applied :
       LET e == applied[k]
           n == Nodes(scen)[e.node]
       IN  /\ e.text[1] = "__maybe_primop_subscript<"
           /\ rewriteBuf[e.file].present
           /\ disk[e.file] = rewriteBuf[e.file].Buffer
           /\ \E T \in Instantiations(n.lhsType) :
                LET arg == HasOverloadArgument(e.text, T)
                    rec == [node |-> e.node, type |-> T, HasOverload |-> arg,
                            selected |-> maybe_primop_subscript(T, arg)]
                IN  /\ rec \notin instantiated
                    /\ instantiated' = instantiated \cup {rec}
  /\ UNCHANGED <<scen, config, DryRun, worklist, visited, smBuffer, rewriteBuf,
                 processed_ranges_, stats, applied, skippedSeen, disk, pc,
                 trail>>
  /\ UNCHANGED <<overlapVars, engineVars, orderVars, classifyVars>>

TransformationConfig ==
  [transform_array_subscripts : BOOLEAN,
   transform_arithmetic_operators : BOOLEAN,
   transform_assignment_operators : BOOLEAN,
   transform_comparisons_operators : BOOLEAN,
   skip_system_headers : BOOLEAN]

TransformationStats0 ==
  [array_subscripts_transformed |-> 0, arithmetic_ops_transformed |-> 0,
   template_instantiations_skipped |-> 0, errors_encountered |-> 0]

\* the other parts' variables while the pipeline runs
NoRange == [valid |-> FALSE, file |-> "m", begin |-> 0, end |-> 0]
NoVerdict == [done |-> FALSE, member |-> FALSE, free |-> FALSE]
OverlapIdle == r1 = NoRange /\ r2 = NoRange /\ ovResult = NoVerdict
EngineIdle  == /\ engState = "Idle" /\ ledger = <<>> /\ conflicts = <<>>
               /\ engOut = <<>>
NoRun == [proposed |-> 0, ledger |-> <<>>]
OrderIdle   == ordA = <<>> /\ ordB = <<>> /\ accA = NoRun /\ accB = NoRun
DetectionStats0 == [array_subscript_count |-> 0, system_header_count |-> 0]
ClassifyIdle == /\ clsNodes = <<>> /\ matched = <<>> /\ analyzed = <<>>
                /\ detector_stats_ = DetectionStats0

Init ==
  /\ scen \in Scenarios
  /\ config \in TransformationConfig
  /\ DryRun \in BOOLEAN
  /\ worklist = TraverseDecl(scen)
  /\ visited = <<>>
  /\ smBuffer = FileText(scen)
  /\ rewriteBuf = [f \in Files |-> EmptyRewriteBuffer]
  /\ processed_ranges_ = {}
  /\ stats = TransformationStats0
  /\ applied = <<>>
  /\ skippedSeen = {}
  /\ disk = FileText(scen)
  /\ pc = "traverse"
  /\ trail = [i \in NodeIds(scen) |-> <<>>]
  /\ instantiated = {}
  /\ OverlapIdle /\ EngineIdle /\ OrderIdle /\ ClassifyIdle

Next ==
  \/ VisitArraySubscriptExpr
  \/ VisitBinaryOperator
  \/ VisitUnaryOperator
  \/ VisitCXXOperatorCallExpr
  \/ HandleTranslationUnit
  \/ EndSourceFileAction
  \/ InstantiateTemplate

Spec == Init /\ [][Next]_vars

(***************************************************************************)
(* Claims about the pipeline (specification Spec).                         *)
(***************************************************************************)
\* half-open spans of one file overlap when each starts before the other ends
SpansOverlap(a, b) ==
  a.file = b.file /\ a.start < b.stop /\ b.start < a.stop

SpanContains(outer, inner) ==
  outer.file = inner.file /\ outer.start <= inner.start /\ inner.stop <= outer.stop

Original == FileText(scen)

\* C1: no two accepted edits of one file have overlapping spans, at any time
\* and so also once the file has been committed.
C1_NoAcceptedOverlap ==
  \A i, j \in DOMAIN applied :
    i < j => ~SpansOverlap(applied[i], applied[j])

\* C2: an edit whose span overlaps an already accepted edit is rejected: it
\* is not applied, the accepted edits and the edited text stay as they were,
\* and exactly one conflict record is added.
C2_OverlappingEditRejected ==
  [][ ( /\ pc = "traverse" /\ worklist # <<>>
        /\ IsCandidateKind(Current.kind)
        /\ \E a \in Range(applied) : SpansOverlap(a, SpanOf(Current)) )
      => ( /\ applied' = applied
           /\ rewriteBuf' = rewriteBuf
           /\ Len(conflicts') = Len(conflicts) + 1 ) ]_vars

\* the text of a file after the given edits were applied one after the other
RECURSIVE ApplyEdits(_, _, _)
ApplyEdits(rb, original, edits) ==
  IF edits = <<>> THEN rb
  ELSE ApplyEdits(Rewriter_ReplaceText(rb, original, Head(edits).start,
                                       Head(edits).stop - 1, Head(edits).text),
                  original, Tail(edits))

EditsOf(f) == SelectSeq(applied, LAMBDA e : e.file = f)

AllApplied(f) == ApplyEdits(EmptyRewriteBuffer, Original[f], EditsOf(f)).Buffer

C5_OperandTextIsOriginal ==
  \A i \in DOMAIN applied :
    LET e == applied[i]
        n == Nodes(scen)[e.node]
    IN  /\ e.lhs_text = Slice(Original[e.file], n.lhsB, n.lhsE + 1)
        /\ e.rhs_text = Slice(Original[e.file], n.rhsB, n.rhsE + 1)

\* C5's case: B's edit was made after the edit of A, which lies inside B
C5_Witness ==
  \E i, j \in DOMAIN applied :
    /\ i < j
    /\ SpanContains(applied[j], applied[i])
    /\ applied[i].text # Slice(Original[applied[i].file], applied[i].start,
                               applied[i].stop)

IsInstrumentationCall(tok) ==
  tok \in {"__primop_subscript<", "__maybe_primop_subscript<"}

CountCalls(text) == Cardinality({ i \in DOMAIN text : IsInstrumentationCall(text[i]) })

IndexAccesses(s) ==
  { i \in NodeIds(s) : Nodes(s)[i].kind = "ArraySubscriptExpr" }

\* C6: for nested index accesses, with index transformation enabled, the
\* final text holds one instrumentation call per index access.
C6_NestedBothInstrumented ==
  ( /\ pc = "done"
    /\ scen \in {"nested_index", "multi_dim"}
    /\ config.transform_array_subscripts )
  => CountCalls(rewriteBuf["m"].Buffer) = Cardinality(IndexAccesses(scen))

PositionIn(seq, x) == CHOOSE i \in DOMAIN seq : seq[i] = x

\* C7: a descendant is visited (and its transform decision made) before any
\* of its ancestors is visited.
C7_PostOrder ==
  \A d, a \in NodeIds(scen) :
    ( /\ IsDescendant(scen, d, a)
      /\ HasVisitMethod(Nodes(scen)[d].kind)
      /\ a \in Range(visited) )
    => /\ d \in Range(visited)
       /\ PositionIn(visited, d) < PositionIn(visited, a)

\* C7's case: an ancestor candidate and both its descendant candidates visited
C7_Witness ==
  /\ scen = "siblings"
  /\ Len(visited) = Cardinality(NodeIds(scen))
  /\ Len(applied) >= 2

MaxOffset == 3

SourceRanges ==
  { r \in [valid : BOOLEAN, file : Files,
           begin : 0..MaxOffset, end : 0..MaxOffset] : r.begin <= r.end }

\* SourceManager::isBeforeInTranslationUnit for two locations of one file
isBeforeInTranslationUnit(a, b) == a < b

\* the static member SourceUtils::rangesOverlap
SourceUtils_rangesOverlap(range1, range2) ==
  IF ~range1.valid \/ ~range2.valid THEN FALSE
  ELSE IF range1.file # range2.file THEN FALSE
  ELSE ~( \/ isBeforeInTranslationUnit(range1.end, range2.begin)
          \/ isBeforeInTranslationUnit(range2.end, range1.begin) )

\* the free function optiweave::utils::rangesOverlap: file offsets only
rangesOverlap(range1, range2) ==
  IF ~range1.valid \/ ~range2.valid THEN FALSE
  ELSE ~(range1.end <= range2.begin \/ range1.begin >= range2.end)

VisitorIdle ==
  /\ scen = "plain"
  /\ config = [transform_array_subscripts |-> TRUE,
               transform_arithmetic_operators |-> FALSE,
               transform_assignment_operators |-> FALSE,
               transform_comparisons_operators |-> FALSE,
               skip_system_headers |-> TRUE]
  /\ DryRun = FALSE
  /\ worklist = <<>> /\ visited = <<>>
  /\ smBuffer = FileText("plain")
  /\ rewriteBuf = [f \in Files |-> EmptyRewriteBuffer]
  /\ processed_ranges_ = {}
  /\ stats = TransformationStats0
  /\ applied = <<>> /\ skippedSeen = {}
  /\ disk = FileText("plain")
  /\ pc = "idle"
  /\ trail = [i \in NodeIds("plain") |-> <<>>]
  /\ instantiated = {}

InitOverlap ==
  /\ VisitorIdle /\ EngineIdle /\ OrderIdle /\ ClassifyIdle
  /\ r1 \in SourceRanges /\ r2 \in SourceRanges
  /\ ovResult = NoVerdict

\* both helpers are asked about the same pair of ranges
CheckOverlap ==
  /\ ~ovResult.done
  /\ ovResult' = [done   |-> TRUE,
                  member |-> SourceUtils_rangesOverlap(r1, r2),
                  free   |-> rangesOverlap(r1, r2)]
  /\ UNCHANGED <<r1, r2>>
  /\ UNCHANGED <<visitorVars, engineVars, orderVars, classifyVars>>

NextOverlap == CheckOverlap

SpecOverlap == InitOverlap /\ [][NextOverlap]_vars

BufLen == 3
MaxEdits == 3

\* the original buffer: position i holds the character i
EngBuffer == [i \in 1..BufLen |-> i]

EngSpans == { sp \in [start : 0..BufLen, stop : 0..BufLen] : sp.start < sp.stop }

\* replacement texts: empty, or two characters that occur nowhere in the
\* buffer and name the candidate
ReplacementTexts(id) == { <<>>, <<0 - id, 0 - id>> }

EngEdit(sp, text, id) ==
  [start |-> sp.start, stop |-> sp.stop, text |-> text, candidate |-> id]

\* half-open overlap of two edits' spans
EditsConflict(a, b) == ~(a.stop <= b.start \/ a.start >= b.stop)

ConflictsWithLedger(l, e) == \E i \in 1..Len(l) : EditsConflict(l[i], e)

AcceptInto_lastOnly(l, e) ==
  IF l # <<>> /\ EditsConflict(l[Len(l)], e) THEN l ELSE Append(l, e)

\* the ledger after proposing e: first-come-first-served
AcceptInto(l, e) == IF ConflictsWithLedger(l, e) THEN l ELSE Append(l, e)

\* RewriterReporter::reportReplacementConflict: one Error diagnostic
reportReplacementConflict(c, e) ==
  Append(c, [severity |-> "Error", kind |-> "ConflictRejected",
             candidate |-> e.candidate, start |-> e.start, stop |-> e.stop])

LedgerValid(l) ==
  /\ \A i \in 1..Len(l) : l[i].start < l[i].stop /\ l[i].stop <= BufLen
  /\ \A i, j \in 1..Len(l) : i # j => ~EditsConflict(l[i], l[j])

RECURSIVE SortByStart(_, _)
\* the edits of a set in descending (desc = TRUE) or ascending start order
SortByStart(S, desc) ==
  IF S = {} THEN <<>>
  ELSE LET e == CHOOSE x \in S :
                  \A y \in S : IF desc THEN x.start >= y.start
                                       ELSE x.start <= y.start
       IN  <<e>> \o SortByStart(S \ {e}, desc)

\* one splice at the edit's original offsets
Splice(buf, e) ==
  SubSeq(buf, 1, e.start) \o e.text \o SubSeq(buf, e.stop + 1, Len(buf))

RECURSIVE SpliceAll(_, _)
SpliceAll(buf, edits) ==
  IF edits = <<>> THEN buf
  ELSE SpliceAll(Splice(buf, Head(edits)), Tail(edits))

CommitOrder_ascending(l) == SortByStart(Range(l), FALSE)

\* commitAll applies the ledger in descending offset order
CommitOrder(l) == SortByStart(Range(l), TRUE)

InitEngine ==
  /\ VisitorIdle /\ OverlapIdle /\ OrderIdle /\ ClassifyIdle
  /\ engState = "Idle" /\ ledger = <<>> /\ conflicts = <<>>
  /\ engOut = EngBuffer

\* an engine that takes proposals in every state
proposeEdit_anyState ==
  /\ Len(ledger) + Len(conflicts) < MaxEdits
  /\ \E sp \in EngSpans :
       LET id == Len(ledger) + Len(conflicts) + 1 IN
       \E text \in ReplacementTexts(id) :
         LET e == EngEdit(sp, text, id) IN
         /\ ledger' = AcceptInto(ledger, e)
         /\ conflicts' = IF ConflictsWithLedger(ledger, e)
                         THEN reportReplacementConflict(conflicts, e)
                         ELSE conflicts
  /\ engState' = "Accumulating"
  /\ UNCHANGED engOut
  /\ UNCHANGED <<visitorVars, overlapVars, orderVars, classifyVars>>

proposeEdit ==
  /\ engState \in {"Idle", "Accumulating"}
  /\ Len(ledger) + Len(conflicts) < MaxEdits
  /\ \E sp \in EngSpans :
       LET id == Len(ledger) + Len(conflicts) + 1 IN
       \E text \in ReplacementTexts(id) :
         LET e == EngEdit(sp, text, id) IN
         /\ ledger' = AcceptInto(ledger, e)
         /\ conflicts' = IF ConflictsWithLedger(ledger, e)
                         THEN reportReplacementConflict(conflicts, e)
                         ELSE conflicts
  /\ engState' = "Accumulating"
  /\ UNCHANGED engOut
  /\ UNCHANGED <<visitorVars, overlapVars, orderVars, classifyVars>>

commitAll ==
  /\ engState = "Accumulating"
  /\ IF LedgerValid(ledger)
     THEN /\ engOut' = SpliceAll(EngBuffer, CommitOrder(ledger))
          /\ engState' = "Committed"
          /\ UNCHANGED ledger
     ELSE /\ engOut' = EngBuffer
          /\ engState' = "RolledBack"
          /\ ledger' = <<>>
  /\ UNCHANGED conflicts
  /\ UNCHANGED <<visitorVars, overlapVars, orderVars, classifyVars>>

rollback ==
  /\ engState = "Accumulating"
  /\ ledger' = <<>>
  /\ engOut' = EngBuffer
  /\ engState' = "RolledBack"
  /\ UNCHANGED conflicts
  /\ UNCHANGED <<visitorVars, overlapVars, orderVars, classifyVars>>

NextEngine == proposeEdit \/ commitAll \/ rollback

SpecEngine == InitEngine /\ [][NextEngine]_vars

RECURSIVE Segments(_, _, _)
\* left to right: the original text between the edits, each edit's
\* replacement in place of its span
Segments(buf, edits, cursor) ==
  IF edits = <<>> THEN Slice(buf, cursor, Len(buf))
  ELSE Slice(buf, cursor, Head(edits).start) \o Head(edits).text
         \o Segments(buf, Tail(edits), Head(edits).stop)

\* C4: the committed text equals the concatenation, in ascending offset
\* order, of the original slices between edits and the edits' replacement
\* texts, although commitAll splices in descending offset order.
C4_CommitEqualsConcatenation ==
  engState = "Committed"
    => engOut = Segments(EngBuffer, SortByStart(Range(ledger), FALSE), 0)

\* committed with two edits, the one at the lower offset changing the length
C4_Witness ==
  /\ engState = "Committed"
  /\ Len(ledger) >= 2
  /\ \E i, j \in 1..Len(ledger) :
       /\ ledger[i].start < ledger[j].start
       /\ Len(ledger[i].text) # ledger[i].stop - ledger[i].start
  /\ engOut # EngBuffer

(***************************************************************************)
(* One fixed set of edits proposed to two fresh engines in two orders.     *)
(***************************************************************************)
\* the sets of edits the two runs share: distinct spans, at most MaxEdits
EditSets ==
  { { EngEdit(sp, <<>>, 0) : sp \in S } :
      S \in { T \in SUBSET EngSpans : T # {} /\ Cardinality(T) <= MaxEdits } }

\* every order in which a set can be proposed
Orders(S) ==
  { o \in [1..Cardinality(S) -> S] :
      \A i, j \in 1..Cardinality(S) : i # j => o[i] # o[j] }

InitOrder ==
  /\ VisitorIdle /\ OverlapIdle /\ EngineIdle /\ ClassifyIdle
  /\ \E S \in EditSets :
       /\ ordA = SortByStart(S, FALSE)
       /\ ordB \in Orders(S)
  /\ accA = NoRun /\ accB = NoRun

\* one proposeEdit of a run: the next edit of its order
ProposeNext(run, order) ==
  [proposed |-> run.proposed + 1,
   ledger   |-> AcceptInto(run.ledger, order[run.proposed + 1])]

ProposeA ==
  /\ accA.proposed < Len(ordA)
  /\ accA' = ProposeNext(accA, ordA)
  /\ UNCHANGED <<ordA, ordB, accB>>
  /\ UNCHANGED <<visitorVars, overlapVars, engineVars, classifyVars>>

ProposeB ==
  /\ accA.proposed = Len(ordA)
  /\ accB.proposed < Len(ordB)
  /\ accB' = ProposeNext(accB, ordB)
  /\ UNCHANGED <<ordA, ordB, accA>>
  /\ UNCHANGED <<visitorVars, overlapVars, engineVars, classifyVars>>

NextOrder == ProposeA \/ ProposeB

SpecOrder == InitOrder /\ [][NextOrder]_vars

BothRunsDone == accA.proposed = Len(ordA) /\ accB.proposed = Len(ordB)

\* C10 as stated: for any fixed finite set of edits on one file, the number
\* of edits proposeEdit accepts is the same for every proposal order.
C10_OrderIndependentCount ==
  BothRunsDone => Len(accA.ledger) = Len(accB.ledger)

\* overlap is transitive on the set: its edits fall into groups of mutually
\* overlapping edits, with no overlap between groups
OverlapTransitive(S) ==
  \A a, b, c \in S :
    (EditsConflict(a, b) /\ EditsConflict(b, c)) => EditsConflict(a, c)

\* C10 amended: when overlap is transitive on the set of edits, the number of
\* edits proposeEdit accepts is the same for every proposal order (one per
\* group of mutually overlapping edits); which edits are accepted may differ.
C10_OrderIndependentCountTransitive ==
  (BothRunsDone /\ OverlapTransitive(Range(ordA)))
    => Len(accA.ledger) = Len(accB.ledger)

\* two different orders of a set with a conflict, accepting different edits
C10_Witness ==
  /\ BothRunsDone
  /\ ordA # ordB
  /\ OverlapTransitive(Range(ordA))
  /\ \E a, b \in Range(ordA) : a # b /\ EditsConflict(a, b)
  /\ \E a, b \in Range(ordA) : ~EditsConflict(a, b)
  /\ Range(accA.ledger) # Range(accB.ledger)

(***************************************************************************)
(* Further claims about the pipeline (Spec) and the engine (SpecEngine).   *)
(***************************************************************************)
AllCategoriesDisabled ==
  /\ ~config.transform_array_subscripts
  /\ ~config.transform_arithmetic_operators
  /\ ~config.transform_assignment_operators
  /\ ~config.transform_comparisons_operators

\* C11: a file for which no edit was accepted is left byte-identical to its
\* input, whatever happens to the other files; with every category disabled
\* no edit is accepted at all.
C11_ZeroEditsIdentity ==
  /\ \A f \in Files : EditsOf(f) = <<>> => disk[f] = Original[f]
  /\ AllCategoriesDisabled => (applied = <<>> /\ disk = Original)

\* C11's case: the run wrote the edited main file and left the header, whose
\* only candidate was filtered out, as it was
C11_Witness ==
  /\ pc = "done" /\ ~DryRun
  /\ scen = "sys_header"
  /\ EditsOf("h") = <<>> /\ EditsOf("m") # <<>>
  /\ disk["m"] # Original["m"]
  /\ disk["h"] = Original["h"] /\ Original["h"] # <<>>

EngineTransitions ==
  { <<"Idle", "Accumulating">>, <<"Accumulating", "Accumulating">>,
    <<"Accumulating", "Committed">>, <<"Accumulating", "RolledBack">> }

\* C12: the engine only moves Idle -> Accumulating -> Committed or
\* Idle -> Accumulating -> RolledBack; once Committed or RolledBack, its
\* state, ledger and output never change again.
C12_EngineStateMachine ==
  [][ /\ engState' # engState => <<engState, engState'>> \in EngineTransitions
      /\ engState \in {"Committed", "RolledBack"} => UNCHANGED engineVars
      /\ ledger' # ledger => engState \in {"Idle", "Accumulating"} ]_vars

\* C12's case: an engine that accepted and rejected edits and then committed
C12_Witness ==
  /\ engState = "Committed"
  /\ ledger # <<>> /\ conflicts # <<>>
  /\ engOut # EngBuffer

\* the paths of the candidate state machine, each to its final stage
CandidatePaths ==
  { <<"Classified", "FilteredOut">>,
    <<"Classified", "Analyzed", "GenerationFailed">>,
    <<"Classified", "Analyzed", "Generated", "Proposed", "Committed">>,
    <<"Classified", "Analyzed", "Generated", "Proposed", "Conflicted">> }

EditsOfNode(i) == SelectSeq(applied, LAMBDA e : e.node = i)

\* C13: a candidate goes once through Classified, then FilteredOut or
\* Analyzed, then Generated or GenerationFailed, then Proposed, then
\* Committed or Conflicted: no stage is entered twice, only a candidate that
\* reached Proposed and Committed has an edit, and it has exactly one.
C13_CandidateStagesLinear ==
  \A i \in NodeIds(scen) :
    /\ trail[i] = <<>> \/ trail[i] \in CandidatePaths
    /\ \A j, k \in DOMAIN trail[i] : j # k => trail[i][j] # trail[i][k]
    /\ Len(EditsOfNode(i)) <= 1
    /\ Len(EditsOfNode(i)) = 1 <=>
         (trail[i] # <<>> /\ trail[i][Len(trail[i])] = "Committed")
    /\ (i \in Range(visited) /\ IsCandidateKind(Nodes(scen)[i].kind))
         => trail[i] # <<>>

\* C13's case: the traversal is over; one candidate was filtered out and
\* another one went all the way to Committed
C13_Witness ==
  /\ pc = "done"
  /\ \E i, j \in NodeIds(scen) :
       /\ trail[i] = <<"Classified", "FilteredOut">>
       /\ trail[j] # <<>> /\ trail[j][Len(trail[j])] = "Committed"

IsIndexExpr(i) == Nodes(scen)[i].kind = "ArraySubscriptExpr"

\* the nearest construct containing node i is an address-of operator
AddressOfOperand(i) ==
  LET n == Nodes(scen)[i]
  IN  /\ n.parent # 0
      /\ Nodes(scen)[n.parent].kind = "UnaryOperator"
      /\ Nodes(scen)[n.parent].op = "&"

\* C14: an index expression whose nearest containing construct is an
\* address-of operator is never transformed, while the other index expression
\* of the same file is.
C14_AddressOfNeverTransformed ==
  /\ \A i \in NodeIds(scen) :
       (IsIndexExpr(i) /\ AddressOfOperand(i)) => EditsOfNode(i) = <<>>
  /\ ( /\ scen = "addr_of" /\ config.transform_array_subscripts
       /\ visited = TraverseDecl(scen) )
     => \A i \in NodeIds(scen) :
          (IsIndexExpr(i) /\ ~AddressOfOperand(i)) => Len(EditsOfNode(i)) = 1

\* C14's case: &a[i];b[j] was traversed with index transformation enabled
C14_Witness ==
  /\ scen = "addr_of" /\ config.transform_array_subscripts
  /\ pc = "done"
  /\ trail[2] = <<"Classified", "FilteredOut">>
  /\ Len(EditsOfNode(3)) = 1

RECURSIVE UnderParens(_, _)
\* node i is k, or k wrapped in parentheses
UnderParens(i, k) ==
  \/ i = k
  \/ /\ Nodes(scen)[i].parent # 0
     /\ Nodes(scen)[Nodes(scen)[i].parent].kind = "ParenExpr"
     /\ UnderParens(Nodes(scen)[i].parent, k)

\* node i is the operand of a sizeof construct, parenthesized or not
SizeofOperand(i) ==
  \E k \in NodeIds(scen) :
    /\ UnderParens(i, k)
    /\ Nodes(scen)[k].parent # 0
    /\ Nodes(scen)[Nodes(scen)[k].parent].kind = "UnaryExprOrTypeTraitExpr"

\* C15: an index expression that is the operand of sizeof, also in the
\* parenthesized form sizeof(a[i]), is never transformed, while the other
\* index expressions of the file are.
C15_SizeofNeverTransformed ==
  /\ \A i \in NodeIds(scen) :
       (IsIndexExpr(i) /\ SizeofOperand(i)) => EditsOfNode(i) = <<>>
  /\ ( /\ scen \in {"sizeof_bare", "sizeof_paren"}
       /\ config.transform_array_subscripts
       /\ visited = TraverseDecl(scen) )
     => \A i \in NodeIds(scen) :
          (IsIndexExpr(i) /\ ~SizeofOperand(i)) => Len(EditsOfNode(i)) = 1

IndexEdits == SelectSeq(applied, LAMBDA e : IsIndexExpr(e.node))

\* the emitted text starts with the given tokens
StartsWith(text, prefix) ==
  Len(text) >= Len(prefix) /\ SubSeq(text, 1, Len(prefix)) = prefix

UsesDeferredEntryPoint(text) ==
  text # <<>> /\ text[1] \in {"__maybe_primop_subscript<", "__maybe_primop_"}

\* C17: a candidate is treated as Deferred if and only if at least one of its
\* operand types (base or index; left or right) depends on an unresolved
\* generic parameter, and as Concrete otherwise.
C17_DeferredIffAnyOperandDependent ==
  \A k \in DOMAIN applied :
    LET n == Nodes(scen)[applied[k].node]
    IN  /\ DependencyClassification(n) = "Deferred" <=> (n.lhsDep \/ n.rhsDep)
        /\ UsesDeferredEntryPoint(applied[k].text) <=> (n.lhsDep \/ n.rhsDep)

\* C18: when a Deferred index access is instantiated with a concrete type,
\* the dispatch selects the user's own index operator if and only if the type
\* supplies one, and otherwise the entry point the Concrete case uses.
C18_DispatchSelectsUserOperatorOrConcrete ==
  \A r \in instantiated :
    /\ r.selected = "user_operator" <=> SuppliesIndexOperator(r.type)
    /\ ~SuppliesIndexOperator(r.type) => r.selected = "__primop_subscript"

\* the positions of text at which the token sequence sub starts
Occurrences(text, sub) ==
  { q \in 1..(Len(text) - Len(sub) + 1) :
      SubSeq(text, q, q + Len(sub) - 1) = sub }

\* the operand texts of an applied edit, as they stand in the original file
OperandsVerbatim(e) ==
  LET n == Nodes(scen)[e.node]
  IN  /\ e.lhs_text = Slice(Original[e.file], n.lhsB, n.lhsE + 1)
      /\ e.rhs_text = Slice(Original[e.file], n.rhsB, n.rhsE + 1)

\* C19 as stated: in every emitted text the left operand's text comes before
\* the right operand's, each is the verbatim original text, and no operand's
\* text occurs more than once.
C19_OperandsOrderedVerbatimOnce ==
  \A k \in DOMAIN applied :
    LET e == applied[k]
    IN  /\ OperandsVerbatim(e)
        /\ Cardinality(Occurrences(e.text, e.lhs_text)) = 1
        /\ Cardinality(Occurrences(e.text, e.rhs_text)) = 1
        /\ \A a \in Occurrences(e.text, e.lhs_text) :
             \A b \in Occurrences(e.text, e.rhs_text) : a < b

\* an occurrence that is the operand of decltype, which is not evaluated
InsideDecltype(text, q) ==
  q > 1 /\ text[q - 1] \in {"decltype(", "!__has_subscript_overload<decltype("}

EvaluatedOccurrences(text, sub) ==
  { q \in Occurrences(text, sub) : ~InsideDecltype(text, q) }

\* C19 amended: each operand's text is the verbatim original text and occurs
\* exactly once as an evaluated argument, the left one before the right one,
\* as the argument list that ends the text; every other occurrence (Deferred
\* case) is the operand of decltype.
C19_OperandsOrderedVerbatimEvaluatedOnce ==
  \A k \in DOMAIN applied :
    LET e == applied[k]
        args == e.lhs_text \o <<", ">> \o e.rhs_text \o <<")">>
    IN  /\ OperandsVerbatim(e)
        /\ Cardinality(EvaluatedOccurrences(e.text, e.lhs_text)) = 1
        /\ Cardinality(EvaluatedOccurrences(e.text, e.rhs_text)) = 1
        /\ \A a \in EvaluatedOccurrences(e.text, e.lhs_text) :
             \A b \in EvaluatedOccurrences(e.text, e.rhs_text) : a < b
        /\ SubSeq(e.text, Len(e.text) - Len(args) + 1, Len(e.text)) = args

\* C19's case: a Deferred binary operator and a Deferred index access were
\* emitted, with copies of the operands inside decltype
C19_Witness ==
  \E j, k \in DOMAIN applied :
    /\ applied[j].text[1] = "__maybe_primop_"
    /\ applied[k].text[1] = "__maybe_primop_subscript<"
    /\ Cardinality(Occurrences(applied[j].text, applied[j].rhs_text)) = 2
    /\ Cardinality(Occurrences(applied[k].text, applied[k].lhs_text)) = 3

\* the text of the left or of the right operand cannot be extracted
OperandTextUnavailable(n) ==
  \/ n.textInvalid
  \/ <<n.lhsB, n.lhsE>> \in n.invalidRanges
  \/ <<n.rhsB, n.rhsE>> \in n.invalidRanges

\* the candidate in hand passes the filters and its category is enabled
ReachesGeneration(n) ==
  /\ ~shouldSkipExpression(scen, n)
  /\ ~isAlreadyProcessed(n)
  /\ IF n.kind = "ArraySubscriptExpr" THEN config.transform_array_subscripts
     ELSE \/ isArithmeticOp(n.op) /\ config.transform_arithmetic_operators
          \/ isAssignmentOp(n.op) /\ config.transform_assignment_operators
          \/ isComparisonOp(n.op) /\ config.transform_comparisons_operators

\* C20: when the text of either operand of a candidate cannot be extracted,
\* the visit of that candidate applies no edit, leaves the edited text, the
\* files and the processed-range set unchanged, and records exactly one
\* error.
C20_ExtractionFailureAtomic ==
  [][ ( /\ pc = "traverse" /\ worklist # <<>>
        /\ IsCandidateKind(Current.kind)
        /\ OperandTextUnavailable(Current)
        /\ ReachesGeneration(Current) )
      => ( /\ applied' = applied
           /\ rewriteBuf' = rewriteBuf
           /\ disk' = disk
           /\ processed_ranges_' = processed_ranges_
           /\ stats' = [stats EXCEPT !.errors_encountered = @ + 1] ) ]_vars

\* C20's case: a[M];N[j] was traversed; the text of the index of the first
\* and of the base of the second access was not available
C20_Witness ==
  /\ scen = "macro_operand"
  /\ visited = TraverseDecl(scen)
  /\ \A i \in NodeIds(scen) :
       trail[i] = <<"Classified", "Analyzed", "GenerationFailed">>
  /\ stats.errors_encountered = 2
  /\ applied = <<>> /\ processed_ranges_ = {}

(***************************************************************************)
(* Claims about gating, counters, files and the prelude.                   *)
(***************************************************************************)
\* TypeAnalyzer::isSafeForInstrumentation on an operand's canonical type
isSafeForInstrumentation(type) ==
  IF type.volatile THEN FALSE
  ELSE IF type.function THEN FALSE
  ELSE IF type.incomplete THEN FALSE
  ELSE TRUE

\* C21: a candidate with a volatile-qualified or incomplete operand type is
\* never instrumented: no edit is applied for it under any configuration.
C21_UnsafeOperandNeverInstrumented ==
  \A k \in DOMAIN applied :
    LET n == Nodes(scen)[applied[k].node]
    IN  isSafeForInstrumentation(n.lhsQual) /\ isSafeForInstrumentation(n.rhsQual)

\* TransformationConfig as default-constructed
DefaultConfig ==
  [transform_array_subscripts |-> TRUE,
   transform_arithmetic_operators |-> FALSE,
   transform_assignment_operators |-> FALSE,
   transform_comparisons_operators |-> FALSE,
   skip_system_headers |-> TRUE]

\* the configuration flag of the operator category of node n
CategoryEnabled(n) ==
  IF n.kind = "ArraySubscriptExpr" THEN config.transform_array_subscripts
  ELSE IF isArithmeticOp(n.op) THEN config.transform_arithmetic_operators
  ELSE IF isAssignmentOp(n.op) THEN config.transform_assignment_operators
  ELSE IF isComparisonOp(n.op) THEN config.transform_comparisons_operators
  ELSE FALSE

\* C22: a candidate is transformed only if its own operator category is
\* enabled and it is not in a system header while skip_system_headers is set;
\* under the default configuration only index accesses are transformed.
C22_TransformedOnlyIfEnabled ==
  /\ \A k \in DOMAIN applied :
       LET n == Nodes(scen)[applied[k].node]
       IN  /\ CategoryEnabled(n)
           /\ ~(config.skip_system_headers /\ n.sys)
  /\ config = DefaultConfig => \A k \in DOMAIN applied : IsIndexExpr(applied[k].node)

\* C22's case: x+y;p=q;u<w was traversed with only assignment enabled, and
\* only the assignment was transformed
C22_Witness ==
  /\ pc = "done"
  /\ scen = "binops"
  /\ ~config.transform_arithmetic_operators
  /\ config.transform_assignment_operators
  /\ ~config.transform_comparisons_operators
  /\ Len(applied) = 1 /\ Nodes(scen)[applied[1].node].op = "="
  /\ trail[1] = <<"Classified", "FilteredOut">>
  /\ trail[3] = <<"Classified", "FilteredOut">>

\* the candidates of an enabled category the traversal has handed to a Visit
\* method so far
ClassifiedCandidates ==
  { i \in Range(visited) :
      IsCandidateKind(Nodes(scen)[i].kind) /\ CategoryEnabled(Nodes(scen)[i]) }

\* the sum of the counters of TransformationStats
OutcomeCount ==
  stats.array_subscripts_transformed + stats.arithmetic_ops_transformed
    + stats.template_instantiations_skipped + stats.errors_encountered

\* C23: every classified candidate has exactly one recorded outcome, so the
\* outcome counters sum to the number of classified candidates; a candidate
\* rejected by the context filter has one record and no edit.
C23_OneOutcomePerCandidate ==
  /\ OutcomeCount = Cardinality(ClassifiedCandidates)
  /\ \A i \in ClassifiedCandidates :
       shouldSkipExpression(scen, Nodes(scen)[i]) => EditsOfNode(i) = <<>>

RECURSIVE CountersAfter(_, _, _)
\* the counters the Visit methods leave after the nodes of list, starting
\* from counters st and processed ranges done; no option of the front end
\* takes part
CountersAfter(list, done, st) ==
  IF list = <<>> THEN st
  ELSE LET n == Nodes(scen)[Head(list)]
           counter == IF n.kind = "ArraySubscriptExpr"
                      THEN "array_subscripts_transformed"
                      ELSE "arithmetic_ops_transformed"
       IN  IF \/ ~IsCandidateKind(n.kind)
              \/ shouldSkipExpression(scen, n)
              \/ range_key(n) \in done
              \/ ~CategoryEnabled(n)
           THEN CountersAfter(Tail(list), done, st)
           ELSE IF OperandTextUnavailable(n) \/ n.notRewritable
           THEN CountersAfter(Tail(list), done,
                              [st EXCEPT !.errors_encountered = @ + 1])
           ELSE CountersAfter(Tail(list), done \cup {range_key(n)},
                              [st EXCEPT ![counter] = @ + 1])

\* C24: in a dry run the traversal works as in a normal run: the counters
\* and the edits made in the Rewriter are those that follow from the input
\* and the configuration alone; but no file is written: every file keeps
\* its original content.
C24_DryRunSameCountersNothingWritten ==
  /\ stats = CountersAfter(visited, {}, TransformationStats0)
  /\ \A f \in Files :
       rewriteBuf[f].present => rewriteBuf[f].Buffer = AllApplied(f)
  /\ DryRun => disk = Original

\* C24's case: a dry run that edited the Rewriter's buffer, counted the
\* edits, and ended
C24_Witness ==
  /\ DryRun /\ pc = "done"
  /\ Len(applied) >= 2
  /\ stats.array_subscripts_transformed >= 2
  /\ rewriteBuf["m"].present /\ rewriteBuf["m"].Buffer # Original["m"]
  /\ disk = Original

\* an edit of node i's own file was applied to exactly node i's range
MarkedInOwnFile(i) ==
  \E k \in DOMAIN applied :
    /\ applied[k].file = Nodes(scen)[i].file
    /\ <<applied[k].start, applied[k].stop - 1>> = range_key(Nodes(scen)[i])

\* C25: files share no mutable state: a candidate is skipped as already
\* processed only because of a span marked in its own file, never because of
\* a span of another file with equal offsets.
C25_FilesShareNoState ==
  \A i \in skippedSeen : MarkedInOwnFile(i)

\* node i, taken alone, is a candidate the visitor can transform
Eligible(i) ==
  LET n == Nodes(scen)[i]
  IN  /\ IsCandidateKind(n.kind)
      /\ ~shouldSkipExpression(scen, n)
      /\ CategoryEnabled(n)
      /\ ~OperandTextUnavailable(n)
      /\ ~n.notRewritable

\* node i did not get an edit: filtered out, failed, or rejected
Failed(i) ==
  /\ IsCandidateKind(Nodes(scen)[i].kind)
  /\ i \in Range(visited)
  /\ EditsOfNode(i) = <<>>

\* C26: a failure is local.  No filtered, failed or rejected candidate ends
\* the traversal: every node of every file is visited.  A candidate that can
\* be transformed is transformed, whatever happened to the candidates
\* before it, unless its range was marked by a successful edit; a candidate
\* without an edit marks nothing.
C26_FailureIsLocal ==
  /\ pc # "traverse" => visited = TraverseDecl(scen)
  /\ \A i \in Range(visited) :
       (Eligible(i) /\ i \notin skippedSeen) => Len(EditsOfNode(i)) = 1
  /\ \A r \in processed_ranges_ :
       \E k \in DOMAIN applied : <<applied[k].start, applied[k].stop - 1>> = r

\* C26's case: the header's candidate and the first two candidates of the
\* main file failed; the third was transformed and the main file written
C26_Witness ==
  /\ scen = "failures" /\ pc = "done" /\ ~DryRun
  /\ Failed(1) /\ Failed(2) /\ Failed(3)
  /\ stats.errors_encountered = 3
  /\ Len(EditsOfNode(4)) = 1
  /\ disk["m"] = AllApplied("m") /\ disk["m"] # Original["m"]

(***************************************************************************)
(* Part IV.  The classifiers.  Two expressions of the same shape and       *)
(* operator, each in a context of its own, are handed to the matchers of   *)
(* OperatorMatchers and to OperatorDetector::shouldAnalyzeExpression, in   *)
(* any order and more than once.                                           *)
(***************************************************************************)
MaxClassifications == 2

\* node class and operator symbol
Shapes ==
  { [kind |-> "ArraySubscriptExpr", op |-> ""],
    [kind |-> "BinaryOperator", op |-> "+"],
    [kind |-> "BinaryOperator", op |-> "="],
    [kind |-> "BinaryOperator", op |-> "<"] }

\* what surrounds an expression: its parent, and where its location lies
Contexts ==
  [parent : {"none", "AddrOf", "UnaryExprOrTypeTraitExpr", "ParenExpr"},
   sys : BOOLEAN, locValid : BOOLEAN]

ClsNode(shape, ctx) ==
  [kind |-> shape.kind, op |-> shape.op, parent |-> ctx.parent,
   sys |-> ctx.sys, locValid |-> ctx.locValid]

\* the matcher isExpansionInSystemHeader()
isExpansionInSystemHeader(n) == n.locValid /\ n.sys

arraySubscriptMatcher(n) ==
  /\ n.kind = "ArraySubscriptExpr"
  /\ ~isExpansionInSystemHeader(n)
  /\ ~(n.parent = "AddrOf")
  /\ ~(n.parent = "UnaryExprOrTypeTraitExpr")

arithmeticOperatorMatcher(n) ==
  /\ n.kind = "BinaryOperator"
  /\ n.op \in {"+", "-", "*", "/", "%"}
  /\ ~isExpansionInSystemHeader(n)
  /\ ~(n.parent = "UnaryExprOrTypeTraitExpr")

assignmentOperatorMatcher(n) ==
  /\ n.kind = "BinaryOperator"
  /\ n.op \in {"=", "+=", "-=", "*=", "/=", "%="}
  /\ ~isExpansionInSystemHeader(n)

comparisonOperatorMatcher(n) ==
  /\ n.kind = "BinaryOperator"
  /\ n.op \in {"==", "!=", "<", ">", "<=", ">="}
  /\ ~isExpansionInSystemHeader(n)

\* the ids the four matchers bind for a node
BoundIds(n) ==
  (IF arraySubscriptMatcher(n) THEN {"arraySubscript"} ELSE {}) \cup
  (IF arithmeticOperatorMatcher(n) THEN {"arithmeticOp"} ELSE {}) \cup
  (IF assignmentOperatorMatcher(n) THEN {"assignmentOp"} ELSE {}) \cup
  (IF comparisonOperatorMatcher(n) THEN {"comparisonOp"} ELSE {})

\* OperatorDetector::shouldAnalyzeExpression: the value returned and the
\* statistics it leaves
shouldAnalyzeExpression(n, st) ==
  IF ~n.locValid THEN [result |-> FALSE, stats |-> st]
  ELSE IF n.sys
  THEN [result |-> FALSE,
        stats |-> [st EXCEPT !.system_header_count = @ + 1]]
  ELSE [result |-> TRUE, stats |-> st]

ClassificationsDone == Len(matched[1]) + Len(matched[2])
                         + Len(analyzed[1]) + Len(analyzed[2])

InitClassify ==
  /\ VisitorIdle /\ OverlapIdle /\ EngineIdle /\ OrderIdle
  /\ \E shape \in Shapes : \E c1, c2 \in Contexts :
       clsNodes = <<ClsNode(shape, c1), ClsNode(shape, c2)>>
  /\ matched = << <<>>, <<>> >>
  /\ analyzed = << <<>>, <<>> >>
  /\ detector_stats_ = DetectionStats0

\* the matchers are run on one of the two expressions
RunMatchers ==
  /\ ClassificationsDone < MaxClassifications
  /\ \E i \in 1..2 :
       matched' = [matched EXCEPT ![i] = Append(@, BoundIds(clsNodes[i]))]
  /\ UNCHANGED <<clsNodes, analyzed, detector_stats_>>
  /\ UNCHANGED <<visitorVars, overlapVars, engineVars, orderVars>>

\* the detector is asked about one of the two expressions
CallShouldAnalyzeExpression ==
  /\ ClassificationsDone < MaxClassifications
  /\ \E i \in 1..2 :
       LET r == shouldAnalyzeExpression(clsNodes[i], detector_stats_)
       IN  /\ analyzed' = [analyzed EXCEPT ![i] = Append(@, r.result)]
           /\ detector_stats_' = r.stats
  /\ UNCHANGED <<clsNodes, matched>>
  /\ UNCHANGED <<visitorVars, overlapVars, engineVars, orderVars>>

NextClassify == RunMatchers \/ CallShouldAnalyzeExpression

SpecClassify == InitClassify /\ [][NextClassify]_vars

\* all entries of a sequence are equal
AllEqual(s) == \A j, k \in DOMAIN s : s[j] = s[k]

\* C27: classification depends only on the node's shape and operator:
\* classifying one node twice gives the same result, two nodes of the same
\* shape and operator get the same result whatever their parent or
\* surroundings, and classifying changes no counter.
C27_ClassificationPure ==
  /\ AllEqual(matched[1] \o matched[2])
  /\ AllEqual(analyzed[1] \o analyzed[2])
  /\ detector_stats_ = DetectionStats0

(***************************************************************************)
(* Claims about the emitted entry points and the counters (Spec).          *)
(***************************************************************************)
\* the binary-operator templates the prelude declares: the two parts of the
\* name and the number of template parameters
PreludeBinaryEntryPoints ==
  { [prefix |-> "__primop_", name |-> "add", params |-> 2],
    [prefix |-> "__primop_", name |-> "sub", params |-> 2],
    [prefix |-> "__primop_", name |-> "mul", params |-> 2],
    [prefix |-> "__primop_", name |-> "div", params |-> 2],
    [prefix |-> "__maybe_primop_", name |-> "add", params |-> 3] }

\* the position of the token that closes the template argument list
ArgListEnd(text) == CHOOSE q \in DOMAIN text : text[q] \in {">()", ">()("}

\* the entry point an emitted binary-operator text names, with the number of
\* template arguments it is given
EmittedEntryPoint(text) ==
  [prefix |-> text[1], name |-> text[2],
   params |-> 1 + Cardinality({ q \in 1..ArgListEnd(text) :
                                  text[q] \in {", ", "), "} })]

BinaryEdits ==
  SelectSeq(applied, LAMBDA e : Nodes(scen)[e.node].kind = "BinaryOperator")

\* C28: for every binary operator kind that can be enabled, the entry point
\* named in the emitted text is one the prelude declares, with the number of
\* template parameters the prelude declares for it, Concrete or Deferred.
C28_BinaryEntryPointDeclared ==
  \A k \in DOMAIN BinaryEdits :
    EmittedEntryPoint(BinaryEdits[k].text) \in PreludeBinaryEntryPoints

\* the arithmetic binary operators for which an edit was applied
ArithmeticEdits ==
  SelectSeq(BinaryEdits, LAMBDA e : isArithmeticOp(Nodes(scen)[e.node].op))

\* C29: the counter printed as "Arithmetic operators transformed" equals
\* the number of arithmetic binary operators transformed, and the counter
\* printed as "Array subscripts transformed" the number of index accesses
\* transformed, for every combination of enabled categories.
C29_CountersMatchLabels ==
  /\ stats.arithmetic_ops_transformed = Len(ArithmeticEdits)
  /\ stats.array_subscripts_transformed = Len(IndexEdits)

\* the visit of candidate i ended in ++stats_.errors_encountered
ErrorCounted(i) ==
  /\ trail[i] # <<>>
  /\ trail[i][Len(trail[i])] \in {"GenerationFailed", "Conflicted"}

\* an edit was applied to a range with the offsets r
EditAppliedAt(r) ==
  \E k \in DOMAIN applied : <<applied[k].start, applied[k].stop - 1>> = r

====
